---- MODULE Spec2Model ----
(***************************************************************************)
(* join-monster, src/index.js: the entry points joinMonster and getNode,   *)
(* the compilation step compileSqlAST, the dbCall adapter handleUserDbCall *)
(* and the row validation validate.                                        *)
(*                                                                         *)
(* JavaScript runs one task at a time: the synchronous part of a call      *)
(* (everything up to the return of joinMonster/getNode) runs to completion *)
(* before any other task starts.  `running` holds the call on the stack;   *)
(* callbacks of the transport (done, promise settlement) are tasks of      *)
(* their own and run only when the stack is empty.                         *)
(***************************************************************************)
EXTENDS Integers, Sequences, FiniteSets, TLC

NumCalls == 2    \* calls of joinMonster/getNode that may be outstanding together
MaxRows == 1     \* a delivered array holds 0..MaxRows rows

Calls == 1..NumCalls

VARIABLES
  running,    \* the call whose synchronous part is on the stack, 0 when idle
  nextId,     \* next fresh object identity (new AliasNamespace, new sqlAST)
  pc,         \* per call: the statement it has reached
  args,       \* per call: the arguments it was called with
  type,       \* getNode: resolveInfo.schema.getType(typeName)
  namespace,  \* per call: identity of its AliasNamespace instance (0: none)
  sqlAST,     \* per call: its SQL AST
  sql,        \* compileSqlAST: the local `sql` after stringify
  compiled,   \* the caller's destructured { sql, shapeDefinition }
  dbCalls,    \* per call: the invocations of dbCall, in order
  dbReturn,   \* per call: what dbCall returned
  delivered,  \* per call: what the transport delivered (done args / settlement / return)
  promise,    \* per call: the promise joinMonster/getNode returned
  thrown,     \* per call: the exception the call itself raised ("none": none)
  raised,     \* per call: the stage that raised first and the error it raised
  uncaught,   \* per call: exception raised inside done into the transport
  trace,      \* per call: the stages run so far, in order
  nestArg     \* per call: the value nest was invoked with

vars == <<running, nextId, pc, args, type, namespace, sqlAST, sql, compiled,
          dbCalls, dbReturn, delivered, promise, thrown, raised, uncaught, trace, nestArg>>

-----------------------------------------------------------------------------
(* JavaScript values a dbCall can deliver.  `of` is the identity of the    *)
(* SQL AST whose SQL text the value answers.                               *)

V(k, n, of) == [k |-> k, n |-> n, of |-> of]

NoVal == V("none", 0, 0)
Undefined == V("undefined", 0, 0)
Null == V("null", 0, 0)
Arr(n, of) == V("array", n, of)              \* an array of n row objects
RowsArr(n, of) == V("rowsArray", n, of)      \* { rows: [n row objects] }
RowsObj(of) == V("rowsObject", 0, of)        \* { rows: {...} }: truthy, no array
PlainObj == V("object", 0, 0)                \* an object without a rows property
Num == V("number", 0, 0)                     \* a number
Thenable == V("promise", 0, 0)               \* an object with a function `then`
Row(of) == V("plainRow", 0, of)              \* the plain object found in { rows: {...} }

IsArray(v) == v.k = "array"

\* Values a dbCall may hand over as its rows.
Delivered(of) ==
  {Arr(n, of) : n \in 0..MaxRows} \cup {RowsArr(n, of) : n \in 0..MaxRows}
    \cup {RowsObj(of), PlainObj, Num, Null, Undefined}

\* Hydrated results.
Res(k, rows, shape, ast, post, ty) ==
  [k |-> k, rows |-> rows, shape |-> shape, ast |-> ast, post |-> post, type |-> ty]

NoRes == Res("none", NoVal, 0, 0, FALSE, "none")
EmptyObject == Res("emptyObject", NoVal, 0, 0, FALSE, "none")   \* {}

\* Outcome of running a piece of code: a value or an exception.
Ok(v) == [threw |-> FALSE, err |-> "none", v |-> v]
Throw(e) == [threw |-> TRUE, err |-> e, v |-> NoVal]


-----------------------------------------------------------------------------
(* SQL AST, SQL text, shape definition.                                    *)

AST(id, built, pruned, many) ==
  [id |-> id, built |-> built, pruned |-> pruned, many |-> many]
NoAST == AST(0, FALSE, 0, FALSE)

\* The SQL text and the AST (identity, number of prunings) it was rendered from.
Sql(text, ast) == [text |-> text, ast |-> ast.id, pruned |-> ast.pruned]
NoSql == [text |-> "none", ast |-> 0, pruned |-> 0]

\* defineObjectShape(sqlAST): the template derived from the AST as it is now.
Shape(ast) == [ast |-> ast.id, pruned |-> ast.pruned, many |-> ast.many]
NoShape == [ast |-> 0, pruned |-> 0, many |-> FALSE]

NoCompiled == [sql |-> NoSql, shapeDefinition |-> NoShape]

NoArgs == [api |-> "none", dialect |-> "none", typeName |-> "none", dbCallLength |-> 0]

NoPromise == [st |-> "none", val |-> NoRes, err |-> "none"]
Pending == [st |-> "pending", val |-> NoRes, err |-> "none"]
Resolved(v) == [st |-> "resolved", val |-> v, err |-> "none"]
Rejected(e) == [st |-> "rejected", val |-> NoRes, err |-> e]

NoRaise == [stage |-> "none", err |-> "none"]

NoDelivery == [via |-> "none", err |-> "none", v |-> NoVal]

-----------------------------------------------------------------------------
(* options.dialect: "undefined" stands for an absent option.               *)

SupportedDialects == {"pg", "mysql", "standard"}

\* const dialect = options.dialect || 'standard'
DialectOf(d) == IF d = "undefined" THEN "standard" ELSE d

\* Slip: an unknown dialect falls back to a stringifier instead of failing.
StringifierFound_Fallback(d) == TRUE

\* require('./stringifiers/' + dialect) finds a module
StringifierFound(d) == DialectOf(d) \in SupportedDialects

\* resolveInfo.schema.getType(typeName)
SchemaType(typeName) == [User |-> "UserType", Post |-> "PostType"][typeName]

\* Slip: the test of the SQL text inverted.
SqlIsFalsy_Inverted(text) == text # ""

\* Slip: the test of the SQL text left out.
SqlIsFalsy_Never(text) == FALSE

\* if (!sql)
SqlIsFalsy(text) == text = ""

-----------------------------------------------------------------------------
(* validate, nest, postProcess and the bodies of the dbCall callbacks.     *)

\* rows && rows.rows
HasTruthyRows(v) == v.k \in {"rowsArray", "rowsObject"}

\* rows.rows
RowsOf(v) == IF v.k = "rowsArray" THEN Arr(v.n, v.of) ELSE Row(v.of)

validate(rows) ==
  IF IsArray(rows) THEN Ok(rows)
  ELSE IF HasTruthyRows(rows) THEN Ok(RowsOf(rows))
  ELSE Throw("ValidationError")

\* rows.slice(0, 8) is evaluated for the debug line: only arrays have slice here.
HasSlice(v) == IsArray(v)

\* nesthydrationjs nest(data, structPropToColumnMap): no rows give null for an
\* object template and [] for a list template; a plain object is one row.
nest(rows, shapeDefinition) ==
  IF IsArray(rows) /\ rows.n = 0
  THEN Res(IF shapeDefinition.many THEN "emptyList" ELSE "null",
           rows, shapeDefinition.ast, 0, FALSE, "none")
  ELSE Res("object", rows, shapeDefinition.ast, 0, FALSE, "none")

\* postProcess(nested, sqlAST): finalizes the hydrated value against the AST.
postProcess(nested, ast) == [nested EXCEPT !.post = TRUE, !.ast = ast.id]

\* What a callback body did: kind is "resolve", "reject" or "throw".
Did(kind, err, v, ops, narg) ==
  [kind |-> kind, err |-> err, v |-> v, ops |-> ops, nestArg |-> narg]

\* rows = validate(rows); debug(... rows.slice(0, 8)); nest; postProcess
HydrateRows(rows, shapeDefinition, ast) ==
  LET val == validate(rows) IN
  IF val.threw THEN Did("throw", val.err, NoRes, <<"validate">>, NoVal)
  ELSE IF ~HasSlice(val.v) THEN Did("throw", "TypeError", NoRes, <<"validate">>, NoVal)
  ELSE Did("resolve", "none", postProcess(nest(val.v, shapeDefinition), ast),
           <<"validate", "nest", "postProcess">>, val.v)

\* Slip: done hydrates the rows without looking at err.
DoneCallback_IgnoreErr(err, rows, shapeDefinition, ast) ==
  HydrateRows(rows, shapeDefinition, ast)

\* (err, rows) => { if (err) reject(err) else { ... resolve(postProcess(nested, sqlAST)) } }
DoneCallback(err, rows, shapeDefinition, ast) ==
  IF err # "none" THEN Did("reject", err, NoRes, <<>>, NoVal)
  ELSE HydrateRows(rows, shapeDefinition, ast)

\* result.then(rows => { ... return postProcess(nested, sqlAST) })
ThenCallback(rows, shapeDefinition, ast) == HydrateRows(rows, shapeDefinition, ast)

\* Promise.resolve(nest(validate(result), shapeDefinition))
DirectResult(result, shapeDefinition, ast) ==
  LET val == validate(result) IN
  IF val.threw THEN Did("throw", val.err, NoRes, <<"validate">>, NoVal)
  ELSE Did("resolve", "none", nest(val.v, shapeDefinition), <<"validate", "nest">>, val.v)

\* .then(obj => { obj.__type__ = type; return obj }): assigning a property of
\* null raises a TypeError inside the then callback, which rejects the promise.
SlapType(p, ty) ==
  IF p.st = "resolved"
  THEN IF p.val.k = "null" THEN Rejected("TypeError")
       ELSE Resolved([p.val EXCEPT !.type = ty])
  ELSE p

\* The promise the entry point hands back for the promise of handleUserDbCall.
Returned(api, p, ty) == IF api = "getNode" THEN SlapType(p, ty) ELSE p

\* Slip: getNode prunes after it has stringified.
StageAfter_PruneLate(api, stage) ==
  IF api = "getNode"
  THEN CASE stage = "getGraphQLType" -> "stringify"
         [] stage = "stringify" -> "pruneDuplicateSqlDeps"
         [] stage = "pruneDuplicateSqlDeps" -> "defineObjectShape"
         [] stage = "defineObjectShape" -> "handleUserDbCall"
  ELSE CASE stage = "queryASTToSqlAST" -> "stringify"
         [] stage = "stringify" -> "defineObjectShape"
         [] stage = "defineObjectShape" -> "checkSql"
         [] stage = "checkSql" -> "handleUserDbCall"

\* The order of the statements of joinMonster and getNode.
StageAfter(api, stage) ==
  IF api = "getNode"
  THEN CASE stage = "getGraphQLType" -> "pruneDuplicateSqlDeps"
         [] stage = "pruneDuplicateSqlDeps" -> "stringify"
         [] stage = "stringify" -> "defineObjectShape"
         [] stage = "defineObjectShape" -> "handleUserDbCall"
  ELSE CASE stage = "queryASTToSqlAST" -> "stringify"
         [] stage = "stringify" -> "defineObjectShape"
         [] stage = "defineObjectShape" -> "checkSql"
         [] stage = "checkSql" -> "handleUserDbCall"

-----------------------------------------------------------------------------
Init ==
  /\ running = 0
  /\ nextId = 1
  /\ pc = [c \in Calls |-> "idle"]
  /\ args = [c \in Calls |-> NoArgs]
  /\ type = [c \in Calls |-> "none"]
  /\ namespace = [c \in Calls |-> 0]
  /\ sqlAST = [c \in Calls |-> NoAST]
  /\ sql = [c \in Calls |-> NoSql]
  /\ compiled = [c \in Calls |-> NoCompiled]
  /\ dbCalls = [c \in Calls |-> <<>>]
  /\ dbReturn = [c \in Calls |-> NoVal]
  /\ delivered = [c \in Calls |-> NoDelivery]
  /\ promise = [c \in Calls |-> NoPromise]
  /\ thrown = [c \in Calls |-> "none"]
  /\ raised = [c \in Calls |-> NoRaise]
  /\ uncaught = [c \in Calls |-> "none"]
  /\ trace = [c \in Calls |-> <<>>]
  /\ nestArg = [c \in Calls |-> NoVal]

\* Slip: the entry point catches what the stringifier raised and raises its own error.
Surfaced_Wrapped(stage, e) == IF stage = "stringify" THEN "JoinMonsterError" ELSE e

\* The exception that leaves joinMonster/getNode when `stage` raised e: neither
\* entry point nor compileSqlAST has a try/catch.
Surfaced(stage, e) == e

\* Call c ends by raising e out of `stage`: nothing after it runs.
Raise(c, stage, e) ==
  /\ raised' = [raised EXCEPT ![c] = [stage |-> stage, err |-> e]]
  /\ thrown' = [thrown EXCEPT ![c] = Surfaced(stage, e)]
  /\ pc' = [pc EXCEPT ![c] = "threw"]
  /\ running' = 0

\* function joinMonster(resolveInfo, context, dbCall, options = {})
joinMonster(c, d, len) ==
  /\ running = 0
  /\ pc[c] = "idle"
  /\ running' = c
  /\ args' = [args EXCEPT ![c] =
       [api |-> "joinMonster", dialect |-> d, typeName |-> "none", dbCallLength |-> len]]
  /\ pc' = [pc EXCEPT ![c] = "queryASTToSqlAST"]
  /\ UNCHANGED <<nextId, type, namespace, sqlAST, sql, compiled, dbCalls, dbReturn,
                 delivered, promise, thrown, raised, uncaught, trace, nestArg>>

\* const sqlAST = queryASTToSqlAST(resolveInfo, options): builds the AST of this
\* call with an AliasNamespace of its own and prunes it, or raises a
\* configuration error.
queryASTToSqlAST(c, ok, many) ==
  /\ running = c
  /\ pc[c] = "queryASTToSqlAST"
  /\ trace' = [trace EXCEPT ![c] = Append(@, "queryASTToSqlAST")]
  /\ IF ok
     THEN /\ namespace' = [namespace EXCEPT ![c] = nextId]
          /\ sqlAST' = [sqlAST EXCEPT ![c] = AST(nextId + 1, TRUE, 1, many)]
          /\ nextId' = nextId + 2
          /\ pc' = [pc EXCEPT ![c] = StageAfter(args[c].api, "queryASTToSqlAST")]
          /\ UNCHANGED <<running, thrown, raised>>
     ELSE /\ Raise(c, "queryASTToSqlAST", "MissingTableMapping")
          /\ UNCHANGED <<namespace, sqlAST, nextId>>
  /\ UNCHANGED <<args, type, sql, compiled, dbCalls, dbReturn, delivered, promise,
                 uncaught, nestArg>>

\* function getNode(typeName, resolveInfo, context, where, dbCall, options = {}),
\* up to `const sqlAST = {}`
getNode(c, d, typeName, len) ==
  /\ running = 0
  /\ pc[c] = "idle"
  /\ running' = c
  /\ args' = [args EXCEPT ![c] =
       [api |-> "getNode", dialect |-> d, typeName |-> typeName, dbCallLength |-> len]]
  /\ type' = [type EXCEPT ![c] = SchemaType(typeName)]
  /\ namespace' = [namespace EXCEPT ![c] = nextId]
  /\ sqlAST' = [sqlAST EXCEPT ![c] = AST(nextId + 1, FALSE, 0, FALSE)]
  /\ nextId' = nextId + 2
  /\ pc' = [pc EXCEPT ![c] = "getGraphQLType"]
  /\ UNCHANGED <<sql, compiled, dbCalls, dbReturn, delivered, promise, thrown,
                 raised, uncaught, trace, nestArg>>

\* getGraphQLType(fieldNodes[0], fakeParentNode, sqlAST, ..., namespace, options)
getGraphQLType(c, ok) ==
  /\ running = c
  /\ pc[c] = "getGraphQLType"
  /\ trace' = [trace EXCEPT ![c] = Append(@, "getGraphQLType")]
  /\ IF ok
     THEN /\ sqlAST' = [sqlAST EXCEPT ![c].built = TRUE]
          /\ pc' = [pc EXCEPT ![c] = StageAfter(args[c].api, "getGraphQLType")]
          /\ UNCHANGED <<running, thrown, raised>>
     ELSE /\ Raise(c, "getGraphQLType", "MissingTableMapping")
          /\ UNCHANGED sqlAST
  /\ UNCHANGED <<nextId, args, type, namespace, sql, compiled, dbCalls, dbReturn,
                 delivered, promise, uncaught, nestArg>>

\* pruneDuplicateSqlDeps(sqlAST, namespace)
pruneDuplicateSqlDeps(c) ==
  /\ running = c
  /\ pc[c] = "pruneDuplicateSqlDeps"
  /\ trace' = [trace EXCEPT ![c] = Append(@, "pruneDuplicateSqlDeps")]
  /\ sqlAST' = [sqlAST EXCEPT ![c].pruned = @ + 1]
  /\ pc' = [pc EXCEPT ![c] = StageAfter(args[c].api, "pruneDuplicateSqlDeps")]
  /\ UNCHANGED <<running, nextId, args, type, namespace, sql, compiled, dbCalls,
                 dbReturn, delivered, promise, thrown, raised, uncaught, nestArg>>

\* compileSqlAST, first half: resolve the dialect's stringifier and render.
\* out: "ok" (text is the SQL rendered) or the error a generator raised.
stringify(c, out, text) ==
  /\ running = c
  /\ pc[c] = "stringify"
  /\ IF ~StringifierFound(args[c].dialect)
     THEN /\ Raise(c, "require", "CannotFindModule")
          /\ UNCHANGED <<sql, trace>>
     ELSE /\ trace' = [trace EXCEPT ![c] = Append(@, "stringify")]
          /\ IF out = "ok"
             THEN /\ sql' = [sql EXCEPT ![c] = Sql(text, sqlAST[c])]
                  /\ pc' = [pc EXCEPT ![c] = StageAfter(args[c].api, "stringify")]
                  /\ UNCHANGED <<running, thrown, raised>>
             ELSE /\ Raise(c, "stringify", out)
                  /\ UNCHANGED sql
  /\ UNCHANGED <<nextId, args, type, namespace, sqlAST, compiled, dbCalls, dbReturn,
                 delivered, promise, uncaught, nestArg>>

\* Slip: a failure of defineObjectShape is swallowed and the SQL text is returned
\* without a shape definition.
defineObjectShape_Swallow(c, ok) ==
  /\ running = c
  /\ pc[c] = "defineObjectShape"
  /\ trace' = [trace EXCEPT ![c] = Append(@, "defineObjectShape")]
  /\ compiled' = [compiled EXCEPT ![c] =
       [sql |-> sql[c], shapeDefinition |-> IF ok THEN Shape(sqlAST[c]) ELSE NoShape]]
  /\ pc' = [pc EXCEPT ![c] = StageAfter(args[c].api, "defineObjectShape")]
  /\ UNCHANGED <<running, thrown, raised>>
  /\ UNCHANGED <<nextId, args, type, namespace, sqlAST, sql, dbCalls, dbReturn,
                 delivered, promise, uncaught, nestArg>>

\* compileSqlAST, second half: defineObjectShape(sqlAST); return { sql, shapeDefinition }
defineObjectShape(c, ok) ==
  /\ running = c
  /\ pc[c] = "defineObjectShape"
  /\ trace' = [trace EXCEPT ![c] = Append(@, "defineObjectShape")]
  /\ IF ok
     THEN /\ compiled' = [compiled EXCEPT ![c] =
               [sql |-> sql[c], shapeDefinition |-> Shape(sqlAST[c])]]
          /\ pc' = [pc EXCEPT ![c] = StageAfter(args[c].api, "defineObjectShape")]
          /\ UNCHANGED <<running, thrown, raised>>
     ELSE /\ Raise(c, "defineObjectShape", "ShapeError")
          /\ UNCHANGED compiled
  /\ UNCHANGED <<nextId, args, type, namespace, sqlAST, sql, dbCalls, dbReturn,
                 delivered, promise, uncaught, nestArg>>

\* if (!sql) return Promise.resolve({})
checkSql(c) ==
  /\ running = c
  /\ pc[c] = "checkSql"
  /\ IF SqlIsFalsy(compiled[c].sql.text)
     THEN /\ promise' = [promise EXCEPT ![c] = Resolved(EmptyObject)]
          /\ pc' = [pc EXCEPT ![c] = "returned"]
          /\ running' = 0
     ELSE /\ pc' = [pc EXCEPT ![c] = StageAfter(args[c].api, "checkSql")]
          /\ UNCHANGED <<promise, running>>
  /\ UNCHANGED <<nextId, args, type, namespace, sqlAST, sql, compiled, dbCalls,
                 dbReturn, delivered, thrown, raised, uncaught, trace, nestArg>>

-----------------------------------------------------------------------------
(* handleUserDbCall(dbCall, sql, shapeDefinition, sqlAST)                  *)

\* Slip: the callbacks read module-level variables, which hold what the call
\* compiled last left there.
Env_Shared(c) ==
  LET last == CHOOSE d \in Calls :
                \A e \in Calls : sqlAST[e].id <= sqlAST[d].id
  IN [shapeDefinition |-> compiled[last].shapeDefinition, sqlAST |-> sqlAST[last]]

\* The shapeDefinition and sqlAST parameters the callbacks of call c close over.
Env(c) == [shapeDefinition |-> compiled[c].shapeDefinition, sqlAST |-> sqlAST[c]]

\* The promise after a callback body ran inside the promise machinery, where an
\* exception rejects: the executor of new Promise, a then callback.
SettledBy(did) ==
  IF did.kind = "resolve" THEN Resolved(did.v) ELSE Rejected(did.err)

\* Stands for "dbCall raised an exception" where a returned value is expected.
Throws == V("throws", 0, 0)

\* if (dbCall.length === 2): new Promise((resolve, reject) => dbCall(sql, done)).
\* b: what dbCall does before it returns ret: "throws", "sync" (calls
\* done(err, v) before returning; an exception of done leaves dbCall and the
\* executor) or "later" (keeps done for later).
callbackMode(c, b, ret, err, v) ==
  /\ running = c
  /\ pc[c] = "handleUserDbCall"
  /\ args[c].dbCallLength = 2
  /\ dbCalls' = [dbCalls EXCEPT ![c] = Append(@, [argc |-> 2, sql |-> compiled[c].sql])]
  /\ running' = 0
  /\ LET did == DoneCallback(err, v, Env(c).shapeDefinition, Env(c).sqlAST) IN
     CASE b = "throws" ->
            /\ promise' = [promise EXCEPT ![c] =
                 Returned(args[c].api, Rejected("DbThrow"), type[c])]
            /\ delivered' = [delivered EXCEPT ![c] =
                 [via |-> "throw", err |-> "DbThrow", v |-> NoVal]]
            /\ trace' = [trace EXCEPT ![c] = Append(@, "dbCall")]
            /\ pc' = [pc EXCEPT ![c] = "returned"]
            /\ UNCHANGED <<dbReturn, nestArg>>
       [] b = "sync" ->
            /\ promise' = [promise EXCEPT ![c] =
                 Returned(args[c].api, SettledBy(did), type[c])]
            /\ delivered' = [delivered EXCEPT ![c] =
                 [via |-> "done", err |-> err, v |-> v]]
            /\ trace' = [trace EXCEPT ![c] = Append(@, "dbCall") \o did.ops]
            /\ nestArg' = [nestArg EXCEPT ![c] = did.nestArg]
            /\ dbReturn' = [dbReturn EXCEPT ![c] =
                 IF did.kind = "throw" THEN Throws ELSE ret]
            /\ pc' = [pc EXCEPT ![c] = "returned"]
       [] b = "later" ->
            /\ promise' = [promise EXCEPT ![c] = Returned(args[c].api, Pending, type[c])]
            /\ dbReturn' = [dbReturn EXCEPT ![c] = ret]
            /\ trace' = [trace EXCEPT ![c] = Append(@, "dbCall")]
            /\ pc' = [pc EXCEPT ![c] = "awaitDone"]
            /\ UNCHANGED <<delivered, nestArg>>
  /\ UNCHANGED <<nextId, args, type, namespace, sqlAST, sql, compiled, thrown, raised,
                 uncaught>>

\* done(err, v) called by the transport after dbCall returned.  An exception of
\* the callback goes to the caller of done; the promise is left as it is.
done(c, err, v) ==
  /\ running = 0
  /\ pc[c] = "awaitDone"
  /\ LET did == DoneCallback(err, v, Env(c).shapeDefinition, Env(c).sqlAST) IN
     /\ delivered' = [delivered EXCEPT ![c] = [via |-> "done", err |-> err, v |-> v]]
     /\ trace' = [trace EXCEPT ![c] = @ \o did.ops]
     /\ nestArg' = [nestArg EXCEPT ![c] = did.nestArg]
     /\ IF did.kind = "throw"
        THEN /\ uncaught' = [uncaught EXCEPT ![c] = did.err]
             /\ UNCHANGED promise
        ELSE /\ promise' = [promise EXCEPT ![c] =
                  Returned(args[c].api, SettledBy(did), type[c])]
             /\ UNCHANGED uncaught
  /\ pc' = [pc EXCEPT ![c] = "delivered"]
  /\ UNCHANGED <<running, nextId, args, type, namespace, sqlAST, sql, compiled,
                 dbCalls, dbReturn, thrown, raised>>

\* const result = dbCall(sql); then either result.then(...) or
\* Promise.resolve(nest(validate(result), shapeDefinition)).
\* r: Throws, Thenable, or the value dbCall returned.
returnMode(c, r) ==
  /\ running = c
  /\ pc[c] = "handleUserDbCall"
  /\ args[c].dbCallLength # 2
  /\ dbCalls' = [dbCalls EXCEPT ![c] = Append(@, [argc |-> 1, sql |-> compiled[c].sql])]
  /\ dbReturn' = [dbReturn EXCEPT ![c] = r]
  /\ LET did == DirectResult(r, Env(c).shapeDefinition, Env(c).sqlAST) IN
     CASE r = Throws ->
            /\ Raise(c, "dbCall", "DbThrow")
            /\ delivered' = [delivered EXCEPT ![c] =
                 [via |-> "throw", err |-> "DbThrow", v |-> NoVal]]
            /\ trace' = [trace EXCEPT ![c] = Append(@, "dbCall")]
            /\ UNCHANGED <<promise, nestArg>>
       [] r = Thenable ->
            /\ promise' = [promise EXCEPT ![c] = Returned(args[c].api, Pending, type[c])]
            /\ trace' = [trace EXCEPT ![c] = Append(@, "dbCall")]
            /\ pc' = [pc EXCEPT ![c] = "awaitPromise"]
            /\ running' = 0
            /\ UNCHANGED <<delivered, thrown, raised, nestArg>>
       [] r \in {Null, Undefined} ->
            \* typeof result.then: reading a property of null or undefined
            /\ Raise(c, "handleUserDbCall", "TypeError")
            /\ delivered' = [delivered EXCEPT ![c] =
                 [via |-> "return", err |-> "none", v |-> r]]
            /\ trace' = [trace EXCEPT ![c] = Append(@, "dbCall")]
            /\ UNCHANGED <<promise, nestArg>>
       [] OTHER ->
            /\ delivered' = [delivered EXCEPT ![c] =
                 [via |-> "return", err |-> "none", v |-> r]]
            /\ trace' = [trace EXCEPT ![c] = Append(@, "dbCall") \o did.ops]
            /\ nestArg' = [nestArg EXCEPT ![c] = did.nestArg]
            /\ IF did.kind = "throw"
               THEN /\ Raise(c, "handleUserDbCall", did.err)
                    /\ UNCHANGED promise
               ELSE /\ promise' = [promise EXCEPT ![c] =
                         Returned(args[c].api, Resolved(did.v), type[c])]
                    /\ pc' = [pc EXCEPT ![c] = "returned"]
                    /\ running' = 0
                    /\ UNCHANGED <<thrown, raised>>
  /\ UNCHANGED <<nextId, args, type, namespace, sqlAST, sql, compiled, uncaught>>

\* The promise dbCall returned settles: fulfilled with v (err = "none") or
\* rejected with err.  The then callback runs on fulfilment; its exception, and
\* the rejection, reject the promise derived by then.
settle(c, err, v) ==
  /\ running = 0
  /\ pc[c] = "awaitPromise"
  /\ LET did == ThenCallback(v, Env(c).shapeDefinition, Env(c).sqlAST) IN
     IF err # "none"
     THEN /\ delivered' = [delivered EXCEPT ![c] =
               [via |-> "promise", err |-> err, v |-> NoVal]]
          /\ promise' = [promise EXCEPT ![c] =
               Returned(args[c].api, Rejected(err), type[c])]
          /\ UNCHANGED <<trace, nestArg>>
     ELSE /\ delivered' = [delivered EXCEPT ![c] =
               [via |-> "promise", err |-> "none", v |-> v]]
          /\ promise' = [promise EXCEPT ![c] =
               Returned(args[c].api, SettledBy(did), type[c])]
          /\ trace' = [trace EXCEPT ![c] = @ \o did.ops]
          /\ nestArg' = [nestArg EXCEPT ![c] = did.nestArg]
  /\ pc' = [pc EXCEPT ![c] = "delivered"]
  /\ UNCHANGED <<running, nextId, args, type, namespace, sqlAST, sql, compiled,
                 dbCalls, dbReturn, thrown, raised, uncaught>>

-----------------------------------------------------------------------------
(* Inputs.                                                                 *)

Dialects == {"undefined", "pg", "nosuch"}
TypeNames == {"User", "Post"}
DbCallLengths == {1, 2, 3}
SqlTexts == {"", "SELECT"}
GeneratorErrors == {"WhereError", "JoinError"}
DbErrors == {"ECONNREFUSED", "ETIMEDOUT"}

\* The identity of the AST whose SQL call c hands to dbCall.
Query(c) == compiled[c].sql.ast

\* What done may be called with: any rows without an error, and with an error
\* either no rows or rows all the same.
DoneArgs(c) ==
  {<<"none", v>> : v \in Delivered(Query(c))}
    \cup {<<e, v>> : e \in DbErrors, v \in {Undefined, Arr(MaxRows, Query(c))}}

\* How a promise of dbCall may settle.
Settlements(c) ==
  {<<"none", v>> : v \in Delivered(Query(c))} \cup {<<e, NoVal>> : e \in DbErrors}

\* One call at a time, with every input.
Solo == {1}

Next ==
  \/ \E c \in Solo, d \in Dialects, len \in DbCallLengths : joinMonster(c, d, len)
  \/ \E c \in Solo, d \in Dialects, t \in TypeNames, len \in DbCallLengths :
       getNode(c, d, t, len)
  \/ \E c \in Solo, ok \in BOOLEAN, many \in BOOLEAN : queryASTToSqlAST(c, ok, many)
  \/ \E c \in Solo, ok \in BOOLEAN : getGraphQLType(c, ok)
  \/ \E c \in Solo : pruneDuplicateSqlDeps(c)
  \/ \E c \in Solo, out \in {"ok"} \cup GeneratorErrors, text \in SqlTexts :
       stringify(c, out, text)
  \/ \E c \in Solo, ok \in BOOLEAN : defineObjectShape(c, ok)
  \/ \E c \in Solo : checkSql(c)
  \/ \E c \in Solo, b \in {"throws", "sync", "later"}, ret \in {Undefined, Thenable} :
       \E a \in DoneArgs(c) : callbackMode(c, b, ret, a[1], a[2])
  \/ \E c \in Solo : \E a \in DoneArgs(c) : done(c, a[1], a[2])
  \/ \E c \in Solo : \E r \in {Throws, Thenable} \cup Delivered(Query(c)) : returnMode(c, r)
  \/ \E c \in Solo : \E a \in Settlements(c) : settle(c, a[1], a[2])

Spec == Init /\ [][Next]_vars

\* Several calls outstanding together, the transport answering each with rows
\* or with an error, in any order.
RowsDelivered(c) == {Arr(n, Query(c)) : n \in 0..MaxRows}

NextC ==
  \/ \E c \in Calls, len \in {1, 2} : joinMonster(c, "undefined", len)
  \/ \E c \in Calls, len \in {1, 2} : getNode(c, "undefined", "User", len)
  \/ \E c \in Calls : queryASTToSqlAST(c, TRUE, FALSE)
  \/ \E c \in Calls : getGraphQLType(c, TRUE)
  \/ \E c \in Calls : pruneDuplicateSqlDeps(c)
  \/ \E c \in Calls : stringify(c, "ok", "SELECT")
  \/ \E c \in Calls : defineObjectShape(c, TRUE)
  \/ \E c \in Calls : checkSql(c)
  \/ \E c \in Calls : callbackMode(c, "later", Undefined, "none", NoVal)
  \/ \E c \in Calls : \E v \in RowsDelivered(c) : done(c, "none", v)
  \/ \E c \in Calls, e \in DbErrors : done(c, e, Undefined)
  \/ \E c \in Calls : \E r \in {Thenable} \cup RowsDelivered(c) : returnMode(c, r)
  \/ \E c \in Calls : \E v \in RowsDelivered(c) : settle(c, "none", v)
  \/ \E c \in Calls, e \in DbErrors : settle(c, e, NoVal)

SpecC == Init /\ [][NextC]_vars

-----------------------------------------------------------------------------
(* Properties.                                                             *)

\* The call has left handleUserDbCall or ended before it.
PastDbCall(c) == pc[c] \in {"awaitDone", "awaitPromise", "delivered", "returned", "threw"}

\* The stage occurs in the trace of call c.
Ran(c, stage) == \E i \in 1..Len(trace[c]) : trace[c][i] = stage

\* C1: every call invokes dbCall at most once, and exactly once when
\* compilation gave a non-empty SQL text; a failure of dbCall, of its promise
\* or of done is never followed by another invocation.
C1_DbCallOnce ==
  \A c \in Calls :
    /\ Len(dbCalls[c]) <= 1
    /\ (PastDbCall(c) /\ compiled[c].sql.text \notin {"none", ""}) => Len(dbCalls[c]) = 1
    /\ delivered[c].err # "none" => Len(dbCalls[c]) = 1

C1_Witness ==
  \E c \in Calls :
    /\ pc[c] = "delivered"
    /\ delivered[c].err \in DbErrors
    /\ promise[c].st = "rejected"
    /\ Len(dbCalls[c]) = 1

\* C2 (as claimed): whenever the returned promise resolves with hydrated rows,
\* in any calling convention, its value is postProcess(nest(validate(rows),
\* shapeDefinition), sqlAST).
C2_ValidateNestPostProcess ==
  \A c \in Calls :
    (promise[c].st = "resolved" /\ delivered[c].via \in {"done", "promise", "return"}) =>
      [promise[c].val EXCEPT !.type = "none"] =
        postProcess(nest(validate(delivered[c].v).v, compiled[c].shapeDefinition), sqlAST[c])

\* C3: a call with an unsupported options.dialect never gets past the lookup of
\* the stringifier: it returns no promise, renders no SQL text, never invokes
\* dbCall, and ends by raising a configuration error itself.
C3_UnsupportedDialect ==
  \A c \in Calls :
    (args[c].api # "none" /\ DialectOf(args[c].dialect) \notin SupportedDialects) =>
      /\ pc[c] \in {"queryASTToSqlAST", "getGraphQLType", "pruneDuplicateSqlDeps",
                    "stringify", "threw"}
      /\ promise[c] = NoPromise
      /\ sql[c] = NoSql
      /\ compiled[c] = NoCompiled
      /\ dbCalls[c] = <<>>
      /\ pc[c] = "threw" => thrown[c] \in {"CannotFindModule", "MissingTableMapping"}

C3_Witness ==
  \E c \in Calls :
    /\ args[c].dialect = "nosuch"
    /\ pc[c] = "threw"
    /\ thrown[c] = "CannotFindModule"
    /\ Ran(c, "pruneDuplicateSqlDeps")

\* C4: an error raised by the stringifier leaves the entry point as that same
\* error value, no promise is returned and dbCall is not invoked.
C4_StringifierErrorVerbatim ==
  \A c \in Calls :
    raised[c].stage = "stringify" =>
      /\ pc[c] = "threw"
      /\ thrown[c] = raised[c].err
      /\ promise[c] = NoPromise
      /\ dbCalls[c] = <<>>

C4_Witness ==
  \E c \in Calls :
    /\ raised[c] = [stage |-> "stringify", err |-> "WhereError"]
    /\ thrown[c] = "WhereError"

\* C5: dbCall is invoked only with the SQL text and the shape definition both
\* returned by compileSqlAST (stringify before defineObjectShape); when the
\* stringifier lookup, stringify or defineObjectShape fails, neither value is
\* returned and dbCall is not invoked.
C5_AllOrNothing ==
  \A c \in Calls :
    /\ dbCalls[c] # <<>> =>
         /\ compiled[c].sql # NoSql
         /\ compiled[c].shapeDefinition # NoShape
         /\ dbCalls[c][1].sql = compiled[c].sql
         /\ \E i, j \in 1..Len(trace[c]) :
              i < j /\ trace[c][i] = "stringify" /\ trace[c][j] = "defineObjectShape"
    /\ (compiled[c].sql = NoSql) = (compiled[c].shapeDefinition = NoShape)
    /\ raised[c].stage \in {"require", "stringify", "defineObjectShape"} =>
         /\ compiled[c] = NoCompiled
         /\ dbCalls[c] = <<>>
         /\ promise[c] = NoPromise

C5_Witness ==
  \E c \in Calls :
    /\ raised[c].stage = "defineObjectShape"
    /\ sql[c].text = "SELECT"
    /\ compiled[c] = NoCompiled
    /\ dbCalls[c] = <<>>

\* C6: calls outstanding together each have an AliasNamespace and an SQL AST of
\* their own, and each promise resolves with the value made from the rows
\* delivered to that call, its shape definition and its SQL AST.
C6_Isolation ==
  \A c \in Calls :
    /\ \A d \in Calls \ {c} :
         /\ namespace[c] # 0 => namespace[c] # namespace[d]
         /\ sqlAST[c].id # 0 => sqlAST[c].id # sqlAST[d].id
    /\ promise[c].st = "resolved" =>
         /\ promise[c].val.rows = delivered[c].v
         /\ promise[c].val.rows.of = sqlAST[c].id
         /\ promise[c].val.shape = sqlAST[c].id
         /\ promise[c].val.post => promise[c].val.ast = sqlAST[c].id
         /\ args[c].api = "getNode" => promise[c].val.type = type[c]

\* A call that started first is still waiting for done while a later call has
\* already resolved with post-processed rows.
C6_Witness ==
  \E c, d \in Calls :
    /\ pc[c] = "awaitDone"
    /\ namespace[c] < namespace[d]
    /\ promise[d].st = "resolved"
    /\ promise[d].val.k = "object"
    /\ promise[d].val.post

\* C7: a failure of the transport is passed on as it is: done(err, rows) with a
\* truthy err, and a rejection of dbCall's promise, reject the returned promise
\* with that value, and validate, nest and postProcess are not run.
C7_TransportFailureVerbatim ==
  \A c \in Calls :
    (delivered[c].via \in {"done", "promise"} /\ delivered[c].err # "none") =>
      /\ promise[c] = Rejected(delivered[c].err)
      /\ ~Ran(c, "validate") /\ ~Ran(c, "nest") /\ ~Ran(c, "postProcess")
      /\ nestArg[c] = NoVal
      /\ uncaught[c] = "none"

C7_Witness ==
  \E c \in Calls :
    /\ delivered[c] = [via |-> "done", err |-> "ETIMEDOUT", v |-> Arr(MaxRows, Query(c))]
    /\ promise[c] = Rejected("ETIMEDOUT")

\* C8 (as claimed): a getNode call whose dbCall delivers valid rows, none
\* included, resolves to an object whose __type__ is the type getType returned.
C8_GetNodeType ==
  \A c \in Calls :
    (/\ args[c].api = "getNode"
     /\ delivered[c].via \in {"done", "promise", "return"}
     /\ delivered[c].err = "none"
     /\ delivered[c].v.k \in {"array", "rowsArray"}) =>
      /\ promise[c].st = "resolved"
      /\ promise[c].val.k = "object"
      /\ promise[c].val.type = type[c]

\* C9 (as claimed): a dbCall of length 2 is called with (sql, done) and its
\* return value is ignored; any other dbCall is called with (sql) alone, and
\* what it returns is awaited when it has a then and is otherwise taken as the
\* rows, that is, handed to validate.
C9_CallingConvention ==
  \A c \in Calls :
    dbCalls[c] # <<>> =>
      IF args[c].dbCallLength = 2
      THEN /\ dbCalls[c][1].argc = 2
           /\ pc[c] = "awaitDone" => promise[c].st = "pending"
           /\ delivered[c].via \in {"none", "done", "throw"}
      ELSE /\ dbCalls[c][1].argc = 1
           /\ dbReturn[c] = Thenable =>
                /\ pc[c] \in {"awaitPromise", "delivered"}
                /\ delivered[c].via \in {"none", "promise"}
           /\ dbReturn[c] \notin {Thenable, Throws} =>
                /\ delivered[c] = [via |-> "return", err |-> "none", v |-> dbReturn[c]]
                /\ Ran(c, "validate")

\* C10: getNode runs getGraphQLType, pruneDuplicateSqlDeps (once), stringify,
\* defineObjectShape and dbCall in this order; the SQL text and the shape
\* definition come from the AST pruned once, and the AST is not pruned again.
GetNodeOrder ==
  <<"getGraphQLType", "pruneDuplicateSqlDeps", "stringify", "defineObjectShape", "dbCall">>

C10_GetNodeStageOrder ==
  \A c \in Calls :
    args[c].api = "getNode" =>
      /\ \A i \in 1..Len(trace[c]) : i <= 5 => trace[c][i] = GetNodeOrder[i]
      /\ Cardinality({i \in 1..Len(trace[c]) : trace[c][i] = "pruneDuplicateSqlDeps"}) <= 1
      /\ sqlAST[c].pruned <= 1
      /\ sql[c] # NoSql =>
           /\ sql[c].ast = sqlAST[c].id
           /\ sql[c].pruned = 1
           /\ sqlAST[c].pruned = 1
      /\ compiled[c] # NoCompiled =>
           /\ compiled[c].sql = sql[c]
           /\ compiled[c].shapeDefinition.ast = sqlAST[c].id
           /\ compiled[c].shapeDefinition.pruned = 1
      /\ dbCalls[c] # <<>> => (compiled[c] # NoCompiled /\ Len(trace[c]) >= 5)

C10_Witness ==
  \E c \in Calls :
    /\ args[c].api = "getNode"
    /\ dbCalls[c] # <<>>
    /\ pc[c] = "delivered"
    /\ promise[c].st = "resolved"

\* The transport handed call c a value that is neither an array nor an object
\* with a truthy rows property.
DeliveredInvalid(c) ==
  /\ delivered[c].via \in {"done", "promise", "return"}
  /\ delivered[c].err = "none"
  /\ delivered[c].v.k \in {"object", "number", "null", "undefined"}

\* C11 (as claimed): whenever dbCall returns, resolves to or passes to done a
\* value that is neither an array nor an object with a truthy rows property,
\* the returned promise is rejected with the validation Error, and nest and
\* postProcess are not run.
C11_InvalidRowsRejected ==
  \A c \in Calls :
    DeliveredInvalid(c) =>
      /\ promise[c] = Rejected("ValidationError")
      /\ ~Ran(c, "nest")
      /\ ~Ran(c, "postProcess")
      /\ nestArg[c] = NoVal

\* C12 (as claimed): once dbCall has delivered its outcome (a returned value, a
\* settled promise, a call of done) the returned promise is resolved or
\* rejected.  A call that ended by raising has returned no promise and is left
\* aside here.
C12_SettlesAfterDelivery ==
  \A c \in Calls :
    (delivered[c].via \in {"done", "promise", "return"} /\ thrown[c] = "none") =>
      promise[c].st \in {"resolved", "rejected"}

\* C13: joinMonster with an empty SQL text resolves to {} without invoking
\* dbCall, and no invocation of dbCall by joinMonster carries an empty SQL text.
C13_EmptySqlSkipsDbCall ==
  \A c \in Calls :
    args[c].api = "joinMonster" =>
      /\ (compiled[c].sql.text = "" /\ pc[c] # "checkSql") =>
           /\ pc[c] = "returned"
           /\ promise[c] = Resolved(EmptyObject)
           /\ dbCalls[c] = <<>>
           /\ delivered[c] = NoDelivery
      /\ \A i \in 1..Len(dbCalls[c]) : dbCalls[c][i].sql.text \notin {"", "none"}

C13_Witness ==
  \E c \in Calls :
    /\ args[c].api = "joinMonster"
    /\ compiled[c].sql.text = ""
    /\ promise[c] = Resolved(EmptyObject)
    /\ pc[c] = "returned"

\* C14 (as claimed): nest is only ever invoked with an array: the array dbCall
\* delivered or the array in the rows property of the object it delivered.
C14_NestGetsArray ==
  \A c \in Calls :
    nestArg[c] # NoVal =>
      /\ IsArray(nestArg[c])
      /\ \/ nestArg[c] = delivered[c].v
         \/ delivered[c].v.k = "rowsArray" /\ nestArg[c] = Arr(delivered[c].v.n, delivered[c].v.of)

=============================================================================
